---- MODULE Spec2Model ----
(***************************************************************************)
(* The interactive control loop of src/main.js: the key map and its two    *)
(* listeners, updateCameraMovement, updateLightMovement (with its sync     *)
(* loop), the lil-gui panel bindings, the GLTF loader callbacks and the    *)
(* animate frame callback.                                                 *)
(*                                                                         *)
(* Numbers.  The code computes in IEEE doubles; the model computes in      *)
(* exact real arithmetic.  Time is counted in clock quanta of 1/StepsPerUnit *)
(* second and lengths in 1/StepsPerUnit world unit, so a speed of s units    *)
(* per second over a delta of d quanta is the integer s*d.  A unit vector  *)
(* of the horizontal plane is kept as a surd vector [v, q], read v/sqrt(q) *)
(* with v an integer vector; the camera position and the look target,      *)
(* which accumulate such vectors, are kept as one integer vector per       *)
(* radicand q in Rads, read as the sum over q of p[q]/sqrt(q).  The        *)
(* radicands of Rads are distinct and square-free, so two positions are    *)
(* equal as reals exactly when they are equal as functions.                *)
(***************************************************************************)
EXTENDS Integers, Sequences, FiniteSets, TLC

VARIABLES
  keys,          \* the key map: code -> held
  lastEvent,     \* per key code, the kind of the last key event delivered
  camera,        \* [position, look]: camera.position and its orientation
  controls,      \* [target]: controls.target
  forward,       \* module-level scratch vector of updateCameraMovement
  right,         \* module-level scratch vector of updateCameraMovement
  moveDir,       \* module-level scratch vector of updateCameraMovement
  params,        \* [activeLight]
  lights,        \* 0..4 -> [position, intensity, distance, color]
  lightSpheres,  \* 0..4 -> [position, color]
  clock,         \* [elapsedTime, jump]: the sum of the deltas getDelta() gave,
                 \* and how far the time source has stepped since the last one
  load,          \* the GLTF load: "pending", "loaded" or "failed"
  rafPending,    \* animation-frame requests not yet called back
  uncaught,      \* whether a callback has ended in an uncaught exception
  callbacks,     \* number of event callbacks delivered so far
  mark,          \* history: clock.elapsedTime and the light positions as the
                 \* latest event callback left them
  tick,          \* history: the steps the latest call of animate performed
  viewport,      \* [size, aspect]: the renderer's size and camera.aspect
  errors         \* number of console.error calls so far

vars == <<keys, lastEvent, camera, controls, forward, right, moveDir, params,
          lights, lightSpheres, clock, load, rafPending, uncaught,
          callbacks, mark, tick, viewport, errors>>

----------------------------------------------------------------------------
(* Bounds of the model.                                                    *)

MaxCallbacks == 2
MaxElapsed == 2

(* Program constants.                                                      *)

\* the panel's position sliders step by 0.1: lengths are counted in steps
StepsPerUnit == 10
NumLights == 5
speed == 5
lightSpeedPerSecond == 4

----------------------------------------------------------------------------
(* Integer vectors.                                                        *)

Zero3 == <<0, 0, 0>>

V3Add(a, b) == <<a[1] + b[1], a[2] + b[2], a[3] + b[3]>>

V3Sub(a, b) == <<a[1] - b[1], a[2] - b[2], a[3] - b[3]>>

V3Scale(k, a) == <<k * a[1], k * a[2], k * a[3]>>

Dot(a, b) == a[1] * b[1] + a[2] * b[2] + a[3] * b[3]

Abs(n) == IF n < 0 THEN -n ELSE n

RECURSIVE Gcd(_, _)
Gcd(a, b) == IF b = 0 THEN a ELSE Gcd(b, a % b)

Gcd3(a) == Gcd(Gcd(Abs(a[1]), Abs(a[2])), Abs(a[3]))

\* a / g for a vector a whose components are multiples of g
V3Div(a, g) ==
  <<(IF a[1] < 0 THEN -((-a[1]) \div g) ELSE a[1] \div g),
    (IF a[2] < 0 THEN -((-a[2]) \div g) ELSE a[2] \div g),
    (IF a[3] < 0 THEN -((-a[3]) \div g) ELSE a[3] \div g)>>

(* Surd vectors [v, q], read v / sqrt(q).                                  *)

SZero == [v |-> Zero3, q |-> 1]

\* Vector3.set(0, 0, 0)
SetZero(s) == SZero

\* Vector3.lengthSq, as the fraction LengthSqNum(s) / s.q
LengthSqNum(s) == Dot(s.v, s.v)

\* Vector3.normalize: divideScalar(length() || 1); the zero vector stays zero
Normalize(s) ==
  IF LengthSqNum(s) = 0
    THEN s
    ELSE LET u == V3Div(s.v, Gcd3(s.v)) IN [v |-> u, q |-> Dot(u, u)]

\* Vector3.add / Vector3.sub of two vectors over the same radicand
SAdd(a, b) ==
  IF a.v = Zero3 THEN b
  ELSE IF V3Add(a.v, b.v) = Zero3 THEN SZero
  ELSE [v |-> V3Add(a.v, b.v), q |-> a.q]

SNeg(a) == [v |-> V3Scale(-1, a.v), q |-> a.q]

SSub(a, b) == SAdd(a, SNeg(b))

\* Vector3.multiplyScalar
MultiplyScalar(s, k) == [v |-> V3Scale(k, s.v), q |-> s.q]

\* Vector3.crossVectors(a, camera.up) with camera.up = (0, 1, 0)
CrossUp(a) == [v |-> <<-a.v[3], 0, a.v[1]>>, q |-> a.q]

(* Positions: one integer vector per radicand.                             *)

Rads == {1, 2, 5, 10}

Point(a) == [r \in Rads |-> IF r = 1 THEN a ELSE Zero3]

\* Vector3.add of a surd vector to a position
PAdd(p, s) == [r \in Rads |-> IF r = s.q THEN V3Add(p[r], s.v) ELSE p[r]]

PSub(p, o) == [r \in Rads |-> V3Sub(p[r], o[r])]

PZero == Point(Zero3)

----------------------------------------------------------------------------
(* History kept for the properties: what an event callback leaves behind.  *)

MarkOf(c, ls) ==
  [time |-> c.elapsedTime, positions |-> [i \in DOMAIN ls |-> ls[i].position]]

----------------------------------------------------------------------------
(* The key map and its listeners (main.js 150-169).                        *)

KeyCodes ==
  {"KeyW", "KeyA", "KeyS", "KeyD", "ArrowUp", "ArrowDown", "ArrowLeft",
   "ArrowRight", "PageUp", "PageDown"}

\* codes the keyboard delivers that the key map does not track
OtherCodes == {"Space"}

EventCodes == KeyCodes \cup OtherCodes

\* a listener without the "in keys" test: any code gets an entry
SetKeyAlways(k, code, pressed) ==
  [c \in DOMAIN k \cup {code} |-> IF c = code THEN pressed ELSE k[c]]

\* if (e.code in keys) keys[e.code] = pressed
SetKey(k, code, pressed) ==
  IF code \in DOMAIN k THEN [k EXCEPT ![code] = pressed] ELSE k

KeyDown(code) ==
  /\ callbacks < MaxCallbacks
  /\ keys' = SetKey(keys, code, TRUE)
  /\ lastEvent' = [lastEvent EXCEPT ![code] = "keydown"]
  /\ callbacks' = callbacks + 1
  /\ mark' = MarkOf(clock, lights)
  /\ UNCHANGED <<tick, viewport, errors,
                 camera, controls, forward, right, moveDir, params, lights,
                 lightSpheres, clock, load, rafPending, uncaught>>

KeyUp(code) ==
  /\ callbacks < MaxCallbacks
  /\ keys' = SetKey(keys, code, FALSE)
  /\ lastEvent' = [lastEvent EXCEPT ![code] = "keyup"]
  /\ callbacks' = callbacks + 1
  /\ mark' = MarkOf(clock, lights)
  /\ UNCHANGED <<tick, viewport, errors,
                 camera, controls, forward, right, moveDir, params, lights,
                 lightSpheres, clock, load, rafPending, uncaught>>

----------------------------------------------------------------------------
(* The camera (main.js 23-35, 175-196).                                    *)

\* Object3D.lookAt as camera.lookAt and controls.update() use it: the
\* orientation, kept as an integer vector along the world direction.  An
\* eye on the target looks along -z; a direction parallel to camera.up is
\* tilted by 0.0001 before the rotation is built.
LookAt(eye, target) ==
  LET o == V3Sub(target[1], eye[1]) IN
    IF o = Zero3 THEN <<0, 0, -1>>
    ELSE IF o[1] = 0 /\ o[3] = 0
      THEN <<0, (IF o[2] > 0 THEN 10000 ELSE -10000), -1>>
    ELSE V3Div(o, Gcd3(o))

\* camera.getWorldDirection(forward): the unit vector of the orientation
GetWorldDirection(cam) == Normalize([v |-> cam.look, q |-> 1])

\* forward.y = 0
FlattenY(s) == [s EXCEPT !.v = <<s.v[1], 0, s.v[3]>>]

\* lines 178-180
ForwardOf(cam) == Normalize(FlattenY(GetWorldDirection(cam)))

\* line 182
RightOf(f) == Normalize(CrossUp(f))

\* lines 184-189
\* a moveDir accumulated from the arrow keys instead of W/A/S/D
MoveDirOfArrows(k, f, r) ==
  LET m0 == SetZero(moveDir)
      m1 == IF k["ArrowUp"] THEN SAdd(m0, f) ELSE m0
      m2 == IF k["ArrowDown"] THEN SSub(m1, f) ELSE m1
      m3 == IF k["ArrowLeft"] THEN SSub(m2, r) ELSE m2
      m4 == IF k["ArrowRight"] THEN SAdd(m3, r) ELSE m3
  IN m4

MoveDirOf(k, f, r) ==
  LET m0 == SetZero(moveDir)
      m1 == IF k["KeyW"] THEN SAdd(m0, f) ELSE m0
      m2 == IF k["KeyS"] THEN SSub(m1, f) ELSE m1
      m3 == IF k["KeyA"] THEN SSub(m2, r) ELSE m2
      m4 == IF k["KeyD"] THEN SAdd(m3, r) ELSE m3
  IN m4

\* a move that is scaled without being normalized first
ScaledMoveRaw(m, d) == MultiplyScalar(m, speed * d)

\* line 192
ScaledMove(m, d) == MultiplyScalar(Normalize(m), speed * d)

\* an updateCameraMovement that moves the camera and leaves the target
updateCameraMovementNoTarget(cam, ctl, k, d) ==
  LET f == ForwardOf(cam)
      r == RightOf(f)
      m == MoveDirOf(k, f, r)
      moved == LengthSqNum(m) > 0
      mv == IF moved THEN ScaledMove(m, d) ELSE m
  IN [forward |-> f, right |-> r, moveDir |-> mv,
      position |-> IF moved THEN PAdd(cam.position, mv) ELSE cam.position,
      target |-> ctl.target]

\* updateCameraMovement(delta): the new values of what it writes
updateCameraMovement(cam, ctl, k, d) ==
  LET f == ForwardOf(cam)
      r == RightOf(f)
      m == MoveDirOf(k, f, r)
      moved == LengthSqNum(m) > 0
      mv == IF moved THEN ScaledMove(m, d) ELSE m
  IN [forward |-> f, right |-> r, moveDir |-> mv,
      position |-> IF moved THEN PAdd(cam.position, mv) ELSE cam.position,
      target |-> IF moved THEN PAdd(ctl.target, mv) ELSE ctl.target]

----------------------------------------------------------------------------
(* The light rig (main.js 63-96, 199-222).                                 *)

LightIds == 0 .. (NumLights - 1)

initialPositions ==
  [i \in LightIds |->
     V3Scale(StepsPerUnit,
             CASE i = 0 -> <<0, 3, 0>>
               [] i = 1 -> <<3, 2, 0>>
               [] i = 2 -> <<-3, 2, 0>>
               [] i = 3 -> <<0, 2, 3>>
               [] i = 4 -> <<0, 2, -3>>)]

White == 16777215

\* new THREE.PointLight(0xffffff, 2.5, 40); intensity in tenths
NewLight(i) ==
  [position |-> initialPositions[i], intensity |-> 25, distance |-> 40,
   color |-> White]

NewSphere(l) == [position |-> l.position, color |-> White]

\* a move by lightSpeed per frame, not scaled by delta
MoveLightPerFrame(p, k, d) ==
  LET s == lightSpeedPerSecond
  IN <<p[1] + s * ((IF k["ArrowRight"] THEN 1 ELSE 0)
                     - (IF k["ArrowLeft"] THEN 1 ELSE 0)),
       p[2] + s * ((IF k["PageUp"] THEN 1 ELSE 0)
                     - (IF k["PageDown"] THEN 1 ELSE 0)),
       p[3] + s * ((IF k["ArrowDown"] THEN 1 ELSE 0)
                     - (IF k["ArrowUp"] THEN 1 ELSE 0))>>

\* lines 210-215
MoveLight(p, k, d) ==
  LET s == lightSpeedPerSecond * d
      p1 == IF k["ArrowUp"] THEN <<p[1], p[2], p[3] - s>> ELSE p
      p2 == IF k["ArrowDown"] THEN <<p1[1], p1[2], p1[3] + s>> ELSE p1
      p3 == IF k["ArrowLeft"] THEN <<p2[1] - s, p2[2], p2[3]>> ELSE p2
      p4 == IF k["ArrowRight"] THEN <<p3[1] + s, p3[2], p3[3]>> ELSE p3
      p5 == IF k["PageUp"] THEN <<p4[1], p4[2] + s, p4[3]>> ELSE p4
      p6 == IF k["PageDown"] THEN <<p5[1], p5[2] - s, p5[3]>> ELSE p5
  IN p6

\* a sync loop that copies nothing
SyncSpheresSkipped(ls, sph) == sph

\* a sync loop that adds the light's position to the marker's
SyncSpheresAdding(ls, sph) ==
  [i \in DOMAIN sph |->
     IF i \in DOMAIN ls
       THEN [sph[i] EXCEPT !.position = V3Add(@, ls[i].position)]
       ELSE sph[i]]

\* lines 218-221: lightSpheres[i].position.copy(lights[i].position)
SyncSpheres(ls, sph) ==
  [i \in DOMAIN sph |->
     IF i \in DOMAIN ls THEN [sph[i] EXCEPT !.position = ls[i].position]
     ELSE sph[i]]

\* an updateLightMovement that moves every light, not the active one alone
updateLightMovementAll(ls, sph, k, active, d) ==
  IF active \notin DOMAIN ls
    THEN [lights |-> ls, lightSpheres |-> sph, threw |-> FALSE]
    ELSE LET moved ==
               [i \in DOMAIN ls |->
                  [ls[i] EXCEPT !.position = MoveLight(@, k, d)]]
         IN [lights |-> moved, lightSpheres |-> SyncSpheres(moved, sph),
             threw |-> ~(DOMAIN ls \subseteq DOMAIN sph)]

\* an updateLightMovement without the "if (!l) return" guard: l.position
\* is read of undefined, and an out-of-range index falls back to light 0
updateLightMovementUnguarded(ls, sph, k, active, d) ==
  IF active \notin DOMAIN ls
    THEN [lights |-> [ls EXCEPT ![0].position = MoveLight(@, k, d)],
          lightSpheres |-> sph, threw |-> TRUE]
    ELSE LET moved ==
               [ls EXCEPT ![active].position = MoveLight(@, k, d)]
         IN [lights |-> moved, lightSpheres |-> SyncSpheres(moved, sph),
             threw |-> ~(DOMAIN ls \subseteq DOMAIN sph)]

\* updateLightMovement(delta): lights[params.activeLight] is undefined for
\* an index that is not one of the array's, and the function returns.
\* threw: a property of undefined was read (a TypeError), which the sync
\* loop would do for a light without a sphere.
updateLightMovement(ls, sph, k, active, d) ==
  IF active \notin DOMAIN ls
    THEN [lights |-> ls, lightSpheres |-> sph, threw |-> FALSE]
    ELSE LET moved ==
               [ls EXCEPT ![active].position = MoveLight(@, k, d)]
         IN [lights |-> moved, lightSpheres |-> SyncSpheres(moved, sph),
             threw |-> ~(DOMAIN ls \subseteq DOMAIN sph)]

----------------------------------------------------------------------------
(* The lil-gui panel (main.js 227-267).                                    *)

\* values the panel's controllers are set to, within their ranges
\* the lights whose folders are edited: the default active one and another
PanelLights == {0, 3}
PanelCoords == {1 * StepsPerUnit}
PanelIntensities == {100}
PanelDistances == {0}
PanelColors == {16711680}

Axes == {1, 2, 3}

\* a selector whose values count the lights from 1, as their names do
SelectActiveLightFromOne(v) ==
  /\ callbacks < MaxCallbacks
  /\ params' = [params EXCEPT !.activeLight = v + 1]
  /\ callbacks' = callbacks + 1
  /\ mark' = MarkOf(clock, lights)
  /\ UNCHANGED <<tick, viewport, errors,
                 keys, lastEvent, camera, controls, forward, right, moveDir,
                 lights, lightSpheres, clock, load, rafPending, uncaught>>

\* the "Active Light (keys)" selector writes one of lightNames' values
SelectActiveLight(v) ==
  /\ callbacks < MaxCallbacks
  /\ params' = [params EXCEPT !.activeLight = v]
  /\ callbacks' = callbacks + 1
  /\ mark' = MarkOf(clock, lights)
  /\ UNCHANGED <<tick, viewport, errors,
                 keys, lastEvent, camera, controls, forward, right, moveDir,
                 lights, lightSpheres, clock, load, rafPending, uncaught>>

\* folder.add(light.position, "x" | "y" | "z", ...)
PanelSetPosition(i, axis, val) ==
  /\ callbacks < MaxCallbacks
  /\ lights' = [lights EXCEPT ![i].position[axis] = val]
  /\ callbacks' = callbacks + 1
  /\ mark' = MarkOf(clock, lights')
  /\ UNCHANGED <<tick, viewport, errors,
                 keys, lastEvent, camera, controls, forward, right, moveDir,
                 params, lightSpheres, clock, load, rafPending, uncaught>>

\* folder.add(light, "intensity", 0, 10, 0.1)
PanelSetIntensity(i, val) ==
  /\ callbacks < MaxCallbacks
  /\ lights' = [lights EXCEPT ![i].intensity = val]
  /\ callbacks' = callbacks + 1
  /\ mark' = MarkOf(clock, lights')
  /\ UNCHANGED <<tick, viewport, errors,
                 keys, lastEvent, camera, controls, forward, right, moveDir,
                 params, lightSpheres, clock, load, rafPending, uncaught>>

\* folder.add(light, "distance", 0, 100, 1)
PanelSetDistance(i, val) ==
  /\ callbacks < MaxCallbacks
  /\ lights' = [lights EXCEPT ![i].distance = val]
  /\ callbacks' = callbacks + 1
  /\ mark' = MarkOf(clock, lights')
  /\ UNCHANGED <<tick, viewport, errors,
                 keys, lastEvent, camera, controls, forward, right, moveDir,
                 params, lightSpheres, clock, load, rafPending, uncaught>>

\* an onChange that sets the light's color and forgets the marker's
PanelSetColorLightOnly(i, val) ==
  /\ callbacks < MaxCallbacks
  /\ lights' = [lights EXCEPT ![i].color = val]
  /\ callbacks' = callbacks + 1
  /\ mark' = MarkOf(clock, lights')
  /\ UNCHANGED <<tick, viewport, errors,
                 keys, lastEvent, camera, controls, forward, right, moveDir,
                 params, lightSpheres, clock, load, rafPending, uncaught>>

\* the color controller's onChange
PanelSetColor(i, val) ==
  /\ callbacks < MaxCallbacks
  /\ lights' = [lights EXCEPT ![i].color = val]
  /\ lightSpheres' = [lightSpheres EXCEPT ![i].color = val]
  /\ callbacks' = callbacks + 1
  /\ mark' = MarkOf(clock, lights')
  /\ UNCHANGED <<tick, viewport, errors,
                 keys, lastEvent, camera, controls, forward, right, moveDir,
                 params, clock, load, rafPending, uncaught>>

----------------------------------------------------------------------------
(* OrbitControls and the GLTF loader (main.js 31-35, 101-145).             *)

\* offsets camera.position - controls.target a pointer drag leaves: level
\* behind the target, and straight above it
OrbitOffsets == {<<0, 0, 10 * StepsPerUnit>>, <<0, 10 * StepsPerUnit, 0>>}

\* controls.update(): the camera is put at target + offset and looks at
\* the target
ControlsUpdate(cam, ctl, offset) ==
  LET pos == PAdd(ctl.target, [v |-> offset, q |-> 1])
  IN [position |-> pos, look |-> LookAt(pos, ctl.target)]

\* a pointer drag on renderer.domElement, handled by OrbitControls
OrbitDrag(offset) ==
  /\ callbacks < MaxCallbacks
  /\ camera' = ControlsUpdate(camera, controls, offset)
  /\ callbacks' = callbacks + 1
  /\ mark' = MarkOf(clock, lights)
  /\ UNCHANGED <<tick, viewport, errors,
                 keys, lastEvent, controls, forward, right, moveDir, params,
                 lights, lightSpheres, clock, load, rafPending, uncaught>>

\* bounding boxes of the loaded model: [center, maxDim]
Boxes == {[center |-> <<0, 1 * StepsPerUnit, 0>>, maxDim |-> 5 * StepsPerUnit]}

\* the onLoad callback, lines 106-140
LoadSuccess(box) ==
  /\ load = "pending"
  /\ callbacks < MaxCallbacks
  /\ LET dist == (box.maxDim * 18) \div 10
         pos == Point(V3Add(box.center, <<dist, dist, dist>>))
         tgt == Point(box.center)
     IN /\ controls' = [controls EXCEPT !.target = tgt]
        /\ camera' = [position |-> pos, look |-> LookAt(pos, tgt)]
  /\ load' = "loaded"
  /\ callbacks' = callbacks + 1
  /\ mark' = MarkOf(clock, lights)
  /\ UNCHANGED <<tick, viewport, errors,
                 keys, lastEvent, forward, right, moveDir, params, lights,
                 lightSpheres, clock, rafPending, uncaught>>

\* an onError that reports and starts the load again
LoadErrorRetrying ==
  /\ load = "pending"
  /\ callbacks < MaxCallbacks
  /\ load' = "pending"
  /\ errors' = errors + 1
  /\ callbacks' = callbacks + 1
  /\ mark' = MarkOf(clock, lights)
  /\ UNCHANGED <<tick, viewport,
                 keys, lastEvent, camera, controls, forward, right, moveDir,
                 params, lights, lightSpheres, clock, rafPending, uncaught>>

\* the onError callback, lines 142-144
LoadError ==
  /\ load = "pending"
  /\ callbacks < MaxCallbacks
  /\ load' = "failed"
  /\ errors' = errors + 1
  /\ callbacks' = callbacks + 1
  /\ mark' = MarkOf(clock, lights)
  /\ UNCHANGED <<tick, viewport,
                 keys, lastEvent, camera, controls, forward, right, moveDir,
                 params, lights, lightSpheres, clock, rafPending, uncaught>>

----------------------------------------------------------------------------
(* The window's size and the resize listener (main.js 13-28, 272-279).     *)

\* window.innerWidth and window.innerHeight when main.js is evaluated
InitialSize == <<1600, 900>>

\* sizes the window is resized to
WindowSizes == {<<800, 600>>}

\* w / h, as the fraction in lowest terms
AspectOf(size) ==
  LET g == Gcd(size[1], size[2])
  IN <<size[1] \div g, size[2] \div g>>

\* an onResize that also puts the camera back where it started
onResizeReframing(size) ==
  /\ callbacks < MaxCallbacks
  /\ viewport' = [size |-> size, aspect |-> AspectOf(size)]
  /\ camera' = [position |-> Point(V3Scale(StepsPerUnit, <<5, 5, 10>>)),
                look |-> camera.look]
  /\ callbacks' = callbacks + 1
  /\ mark' = MarkOf(clock, lights)
  /\ UNCHANGED <<tick, errors, keys, lastEvent, controls, forward,
                 right, moveDir, params, lights, lightSpheres, clock, load,
                 rafPending, uncaught>>

\* onResize: renderer.setSize(w, h); camera.aspect = w / h
onResize(size) ==
  /\ callbacks < MaxCallbacks
  /\ viewport' = [size |-> size, aspect |-> AspectOf(size)]
  /\ callbacks' = callbacks + 1
  /\ mark' = MarkOf(clock, lights)
  /\ UNCHANGED <<tick, errors, keys, lastEvent, camera, controls, forward,
                 right, moveDir, params, lights, lightSpheres, clock, load,
                 rafPending, uncaught>>

----------------------------------------------------------------------------
(* The frame callback (main.js 281-295).                                   *)

\* values clock.getDelta() returns: performance.now() does not go back
\* time that passes between two frames
Deltas == {0, 1, 2}

\* Clock.getDelta(): the time source's reading minus the previous one
getDelta(c, passed) == passed + c.jump

\* a tick that requests two animation frames
requestAnimationFrameTwice(pending) == pending + 2

\* requestAnimationFrame(animate): one more callback is pending
requestAnimationFrame(pending) == pending + 1

\* an animate that renders before it moves the lights
animateStepsRenderFirst(ls, active, threw) ==
  <<"updateCameraMovement", "render", "updateLightMovement">>
    \o (IF active \in DOMAIN ls /\ ~threw THEN <<"sync">> ELSE <<>>)
    \o (IF threw THEN <<>>
        ELSE <<"controls.update", "requestAnimationFrame">>)

\* the steps of one call of animate, in the order they are executed.
\* updateLightMovement runs its sync loop unless it has returned at line
\* 206; an exception ends the call where it is thrown
animateSteps(ls, active, threw) ==
  <<"updateCameraMovement", "updateLightMovement">>
    \o (IF active \in DOMAIN ls /\ ~threw THEN <<"sync">> ELSE <<>>)
    \o (IF threw THEN <<>>
        ELSE <<"controls.update", "render", "requestAnimationFrame">>)

animate(passed) ==
  /\ rafPending > 0
  /\ clock.elapsedTime + getDelta(clock, passed) \in -1 .. MaxElapsed
  /\ \E d \in {getDelta(clock, passed)} :
     \E c \in {updateCameraMovement(camera, controls, keys, d)},
        l \in {updateLightMovement(lights, lightSpheres, keys,
                                   params.activeLight, d)} :
        /\ forward' = c.forward
        /\ right' = c.right
        /\ moveDir' = c.moveDir
        /\ controls' = [controls EXCEPT !.target = c.target]
        /\ lights' = l.lights
        /\ lightSpheres' = l.lightSpheres
        /\ tick' = animateSteps(lights, params.activeLight, l.threw)
        /\ IF l.threw
             \* the exception leaves animate: lines 289-292 do not run
             THEN /\ camera' = [camera EXCEPT !.position = c.position]
                  /\ uncaught' = TRUE
                  /\ rafPending' = rafPending - 1
             \* controls.update(), renderer.render, requestAnimationFrame
             ELSE /\ camera' = [position |-> c.position,
                                look |-> LookAt(c.position, c.target)]
                  /\ uncaught' = uncaught
                  /\ rafPending' = requestAnimationFrame(rafPending - 1)
  /\ clock' = [elapsedTime |-> clock.elapsedTime + getDelta(clock, passed),
               jump |-> 0]
  /\ UNCHANGED <<viewport, errors, keys, lastEvent, params, load, callbacks, mark>>

----------------------------------------------------------------------------
(* The state once main.js has been evaluated: the scene is built and the   *)
(* first animate() call, whose delta is 0, has run.                        *)

InitCamera ==
  LET pos == Point(V3Scale(StepsPerUnit, <<5, 5, 10>>))
      tgt == Point(V3Scale(StepsPerUnit, <<0, 1, 0>>))
  IN [position |-> pos, look |-> LookAt(pos, tgt)]

Init ==
  /\ keys = [c \in KeyCodes |-> FALSE]
  /\ lastEvent = [c \in EventCodes |-> "none"]
  /\ camera = InitCamera
  /\ controls = [target |-> Point(V3Scale(StepsPerUnit, <<0, 1, 0>>))]
  /\ forward = ForwardOf(InitCamera)
  /\ right = RightOf(ForwardOf(InitCamera))
  /\ moveDir = SZero
  /\ params = [activeLight |-> 0]
  /\ lights = [i \in LightIds |-> NewLight(i)]
  /\ lightSpheres = [i \in LightIds |-> NewSphere(NewLight(i))]
  /\ clock = [elapsedTime |-> 0, jump |-> 0]
  /\ load = "pending"
  /\ rafPending = 1
  /\ uncaught = FALSE
  /\ callbacks = 0
  /\ mark = MarkOf([elapsedTime |-> 0, jump |-> 0],
                   [i \in LightIds |-> NewLight(i)])
  /\ tick = animateSteps([i \in LightIds |-> NewLight(i)], 0, FALSE)
  /\ viewport = [size |-> InitialSize, aspect |-> AspectOf(InitialSize)]
  /\ errors = 0

Next ==
  \/ \E code \in EventCodes : KeyDown(code)
  \/ \E code \in EventCodes : KeyUp(code)
  \/ \E v \in LightIds : SelectActiveLight(v)
  \/ \E i \in PanelLights, axis \in Axes, val \in PanelCoords :
       PanelSetPosition(i, axis, val)
  \/ \E i \in PanelLights, val \in PanelIntensities : PanelSetIntensity(i, val)
  \/ \E i \in PanelLights, val \in PanelDistances : PanelSetDistance(i, val)
  \/ \E i \in PanelLights, val \in PanelColors : PanelSetColor(i, val)
  \/ \E offset \in OrbitOffsets : OrbitDrag(offset)
  \/ \E box \in Boxes : LoadSuccess(box)
  \/ LoadError
  \/ \E size \in WindowSizes : onResize(size)
  \/ \E d \in Deltas : animate(d)

Spec == Init /\ [][Next]_vars

----------------------------------------------------------------------------
(* The same program with the inputs of its two navigators driven over      *)
(* values the panel, OrbitControls and the clock do not produce: an        *)
(* active-light index outside 0..4, a camera looking straight down or up,  *)
(* and a time source that steps back, so that getDelta() is negative.      *)

DriverSelections == {-1, NumLights}

DriverLooks == {<<0, -1, 0>>, <<0, 1, 0>>}

DriverJumps == {-1}

\* params.activeLight = v
DriveSelect(v) ==
  /\ callbacks < MaxCallbacks
  /\ params' = [params EXCEPT !.activeLight = v]
  /\ callbacks' = callbacks + 1
  /\ mark' = MarkOf(clock, lights)
  /\ UNCHANGED <<tick, viewport, errors,
                 keys, lastEvent, camera, controls, forward, right, moveDir,
                 lights, lightSpheres, clock, load, rafPending, uncaught>>

\* the camera is turned to look along look
DrivePose(look) ==
  /\ callbacks < MaxCallbacks
  /\ camera' = [camera EXCEPT !.look = look]
  /\ callbacks' = callbacks + 1
  /\ mark' = MarkOf(clock, lights)
  /\ UNCHANGED <<tick, viewport, errors,
                 keys, lastEvent, controls, forward, right, moveDir, params,
                 lights, lightSpheres, clock, load, rafPending, uncaught>>

\* the time source steps by j between two frames
DriveClock(j) ==
  /\ callbacks < MaxCallbacks
  /\ clock' = [clock EXCEPT !.jump = j]
  /\ callbacks' = callbacks + 1
  /\ mark' = MarkOf(clock, lights)
  /\ UNCHANGED <<tick, viewport, errors,
                 keys, lastEvent, camera, controls, forward, right, moveDir,
                 params, lights, lightSpheres, load, rafPending, uncaught>>

NextDriver ==
  \/ \E code \in EventCodes : KeyDown(code)
  \/ \E code \in EventCodes : KeyUp(code)
  \/ \E v \in LightIds : SelectActiveLight(v)
  \/ \E i \in PanelLights, axis \in Axes, val \in PanelCoords :
       PanelSetPosition(i, axis, val)
  \/ \E i \in PanelLights, val \in PanelIntensities : PanelSetIntensity(i, val)
  \/ \E i \in PanelLights, val \in PanelDistances : PanelSetDistance(i, val)
  \/ \E i \in PanelLights, val \in PanelColors : PanelSetColor(i, val)
  \/ \E offset \in OrbitOffsets : OrbitDrag(offset)
  \/ \E box \in Boxes : LoadSuccess(box)
  \/ LoadError
  \/ \E size \in WindowSizes : onResize(size)
  \/ \E v \in DriverSelections : DriveSelect(v)
  \/ \E look \in DriverLooks : DrivePose(look)
  \/ \E j \in DriverJumps : DriveClock(j)
  \/ \E d \in Deltas : animate(d)

SpecDriver == Init /\ [][NextDriver]_vars

----------------------------------------------------------------------------
(* The same program with a frame whose light navigation step fails: the    *)
(* array of markers is one short of the array of lights, so that the sync  *)
(* loop of updateLightMovement reads lightSpheres[i].position of undefined *)
(* (a TypeError).                                                          *)

\* lightSpheres.pop()
DropSphere ==
  /\ callbacks < MaxCallbacks
  /\ DOMAIN lightSpheres = LightIds
  /\ lightSpheres' = [i \in 0 .. (NumLights - 2) |-> lightSpheres[i]]
  /\ callbacks' = callbacks + 1
  /\ mark' = MarkOf(clock, lights)
  /\ UNCHANGED <<tick, viewport, errors, keys, lastEvent, camera, controls,
                 forward, right, moveDir, params, lights, clock, load,
                 rafPending, uncaught>>

NextFault ==
  \/ Next
  \/ DropSphere

SpecFault == Init /\ [][NextFault]_vars

TypeOK ==
  /\ DOMAIN keys = KeyCodes
  /\ forward.q \in Rads /\ right.q \in Rads /\ moveDir.q \in Rads
  /\ forward.q = right.q

----------------------------------------------------------------------------
(* What the properties below speak of.                                     *)

\* every event callback is counted; a step that counts none is a frame
FrameStep == callbacks' = callbacks

\* how many times the latest call of animate performed step
Count(step) == Cardinality({i \in DOMAIN tick : tick[i] = step})

\* the delta clock.getDelta() gave the frame of this step
FrameDelta == clock'.elapsedTime - clock.elapsedTime

Synced == \A i \in LightIds : lightSpheres[i].position = lights[i].position

LightPositions == [i \in LightIds |-> lights[i].position]

Held(code) == IF keys[code] THEN 1 ELSE 0

----------------------------------------------------------------------------
(* C1: under the program's own inputs (selections 0..4), every frame ends  *)
(* with each marker at its light's position, which is the state            *)
(* renderer.render draws; and a step that is neither a frame nor a panel   *)
(* position edit never breaks that equality.                               *)
C1_MarkersMatchAtRender ==
  [][/\ FrameStep =>
          \A i \in LightIds : lightSpheres'[i].position = lights'[i].position
     /\ (Synced /\ ~FrameStep /\ LightPositions' = LightPositions) => Synced'
    ]_vars

\* a light that is not the active one was moved by the panel, and a frame
\* has since brought its marker along
C1_Witness ==
  \E i \in LightIds :
    /\ i # params.activeLight
    /\ lights[i].position # initialPositions[i]
    /\ lightSpheres[i].position = lights[i].position

(* C2: every frame, whatever the active-light selection is (an index       *)
(* outside 0..4 included), copies each light's position to its marker, so  *)
(* a panel edit made before the frame shows in the frame's render.         *)
C2_SyncOnEveryFrame == [][FrameStep => Synced']_vars

(* C3: one frame's updateLightMovement changes at most the position of     *)
(* lights[params.activeLight]: every other light keeps its position, and   *)
(* all five keep intensity, distance and color.                            *)
C3_OnlyActiveLightMoves ==
  [][FrameStep =>
       \A i \in LightIds :
         /\ i # params.activeLight => lights'[i] = lights[i]
         /\ lights'[i].intensity = lights[i].intensity
         /\ lights'[i].distance = lights[i].distance
         /\ lights'[i].color = lights[i].color]_vars

\* the active light has been moved by a held arrow key
C3_Witness ==
  /\ params.activeLight \in LightIds
  /\ keys["ArrowRight"]
  /\ clock.elapsedTime > 0
  /\ lights[params.activeLight].position[1]
       > initialPositions[params.activeLight][1]
  /\ lights[params.activeLight].position[1] # 1 * StepsPerUnit

(* C4: with the active-light selection outside 0..4 a frame changes no     *)
(* field of any light, whatever keys are held and whatever the delta, and  *)
(* ends without an exception.                                              *)
C4_OutOfRangeIsNoOp ==
  [][(FrameStep /\ params.activeLight \notin LightIds) =>
       /\ lights' = lights
       /\ uncaught' = FALSE
       /\ rafPending' = rafPending]_vars

\* a frame has run with an out-of-range selection and a light key held
C4_Witness ==
  /\ params.activeLight \notin LightIds
  /\ \E code \in {"ArrowUp", "ArrowDown", "ArrowLeft", "ArrowRight",
                  "PageUp", "PageDown"} : keys[code]
  /\ clock.elapsedTime > 0

(* C5: with an in-range active light and a delta d >= 0, one frame moves   *)
(* the active light by 4*d*(ArrowRight - ArrowLeft) in x,                  *)
(* 4*d*(PageUp - PageDown) in y and 4*d*(ArrowDown - ArrowUp) in z, every  *)
(* held key counting 1; and while only ArrowRight is held, over the frames *)
(* run since the latest event callback, whose deltas sum to T, the active  *)
(* light's x has grown by exactly 4*T and no other coordinate of any light *)
(* has changed, however T is split into frames.                            *)
OnlyArrowRightHeld == \A code \in KeyCodes : keys[code] = (code = "ArrowRight")

C5_LightDisplacement ==
  /\ [][(FrameStep /\ params.activeLight \in LightIds) =>
          LET p == lights[params.activeLight].position
              n == lights'[params.activeLight].position
              s == lightSpeedPerSecond * FrameDelta
          IN /\ n[1] = p[1] + s * (Held("ArrowRight") - Held("ArrowLeft"))
             /\ n[2] = p[2] + s * (Held("PageUp") - Held("PageDown"))
             /\ n[3] = p[3] + s * (Held("ArrowDown") - Held("ArrowUp"))
       ]_vars
  /\ []((OnlyArrowRightHeld /\ params.activeLight \in LightIds) =>
          LightPositions =
            [mark.positions EXCEPT
               ![params.activeLight][1] =
                  @ + lightSpeedPerSecond * (clock.elapsedTime - mark.time)])

\* light 2 selected, ArrowRight held for two quanta of frames: x is 8 up
C5_Witness ==
  /\ params.activeLight = 2
  /\ OnlyArrowRightHeld
  /\ clock.elapsedTime - mark.time = 2
  /\ lights[2].position[1] = initialPositions[2][1] + 8
  /\ lightSpheres[2].position = lights[2].position

(* C6: a frame whose delta is negative is treated as one whose delta is 0: *)
(* with any keys held it leaves the camera position, the look target and   *)
(* every light position as they were.                                      *)
C6_NegativeDeltaIsZero ==
  [][(FrameStep /\ FrameDelta < 0) =>
       /\ camera'.position = camera.position
       /\ controls'.target = controls.target
       /\ LightPositions' = LightPositions]_vars

(* C7: one frame's updateCameraMovement adds the same vector to            *)
(* camera.position and to controls.target, so their difference is kept;    *)
(* with none of W/A/S/D held it changes neither.                           *)
NoMoveKeyHeld ==
  ~(keys["KeyW"] \/ keys["KeyA"] \/ keys["KeyS"] \/ keys["KeyD"])

C7_CameraAndTargetMoveTogether ==
  [][FrameStep =>
       /\ PSub(controls'.target, camera'.position)
            = PSub(controls.target, camera.position)
       /\ PSub(controls'.target, controls.target)
            = PSub(camera'.position, camera.position)
       /\ NoMoveKeyHeld =>
            /\ camera'.position = camera.position
            /\ controls'.target = controls.target]_vars

\* W has carried the camera and the target along the initial forward
\* direction, the only way either gets a component over sqrt(5)
C7_Witness ==
  /\ keys["KeyW"]
  /\ camera.position[5] # Zero3
  /\ controls.target[5] = camera.position[5]

(* C8: for a delta d >= 0 the camera displacement of one frame has length  *)
(* speed*d exactly whenever the held W/A/S/D keys do not cancel (W+D moves *)
(* as far as W alone), and is zero when they cancel; so it is never longer *)
(* than speed*d.                                                           *)
MoveKeysCancel ==
  /\ keys["KeyW"] = keys["KeyS"]
  /\ keys["KeyA"] = keys["KeyD"]

\* the position difference p has length len
HasLength(p, len) ==
  \E q \in Rads :
    /\ \A r \in Rads \ {q} : p[r] = Zero3
    /\ Dot(p[q], p[q]) = len * len * q

\* the position difference p is no longer than len
AtMostLength(p, len) ==
  \E q \in Rads :
    /\ \A r \in Rads \ {q} : p[r] = Zero3
    /\ Dot(p[q], p[q]) <= len * len * q

LooksVertical == camera.look[1] = 0 /\ camera.look[3] = 0

OnlyWHeld == \A code \in KeyCodes : keys[code] = (code = "KeyW")

C9_VerticalLookFallsBack ==
  [][(FrameStep /\ LooksVertical /\ OnlyWHeld /\ FrameDelta > 0) =>
       /\ HasLength(PSub(camera'.position, camera.position),
                    speed * FrameDelta)
       /\ PSub(controls'.target, controls.target)
            = PSub(camera'.position, camera.position)
       /\ uncaught' = FALSE]_vars

(* C10: each tracked code's flag is true exactly when the last event for   *)
(* that code was a keydown; the map never gets another entry and an event  *)
(* with an untracked code leaves it as it was; and a key event changes     *)
(* nothing of the camera, the target, the lights, the markers or the       *)
(* active-light selection.                                                 *)
C10_KeyMapFollowsEvents ==
  /\ [](/\ DOMAIN keys = KeyCodes
        /\ \A code \in KeyCodes : keys[code] = (lastEvent[code] = "keydown"))
  /\ [][/\ (\E code \in OtherCodes : lastEvent'[code] # lastEvent[code])
             => keys' = keys
        /\ (\A code \in KeyCodes :
              lastEvent'[code] = lastEvent[code] => keys'[code] = keys[code])
        /\ lastEvent' # lastEvent =>
             UNCHANGED <<camera, controls, lights, lightSpheres, params>>
       ]_vars

\* W is held after its keydown, and an untracked code has been delivered
C10_Witness ==
  /\ lastEvent["KeyW"] = "keydown"
  /\ keys["KeyW"]
  /\ \E code \in OtherCodes : lastEvent[code] # "none"

----------------------------------------------------------------------------
\* C11: the frame loop never stops because of one frame's error: a tick
\* whose camera or light navigation step fails still renders and still
\* schedules the next tick, and no exception leaves the frame callback, so
\* that a frame callback stays pending after every tick.
C11_FrameLoopSurvivesError ==
  [][FrameStep =>
          /\ Count("render")' = 1
          /\ rafPending' >= 1
          /\ ~uncaught']_vars

----------------------------------------------------------------------------
\* the entities the frame tick and the callbacks share, the key map apart
Shared == <<camera.position, controls.target, lights, lightSpheres, params>>

MarkerPositions == [i \in DOMAIN lightSpheres |-> lightSpheres[i].position]

\* C12, as stated: the key map is the only shared entity written outside
\* the frame tick: no input, panel, loader or resize callback writes the
\* camera position, the look target, a light, a marker or the selection.
C12_OnlyKeysWrittenOutsideTick ==
  [][~FrameStep => Shared' = Shared]_vars

\* C12, amended: the key listeners write the key map and no other shared
\* entity, and nothing else writes the key map; a resize callback and the
\* load-failure callback write no shared entity; the marker positions are
\* written inside the frame tick only.
C12_WritesOutsideTick ==
  [][/\ (lastEvent' # lastEvent => Shared' = Shared)
     /\ (keys' # keys => ~FrameStep /\ lastEvent' # lastEvent)
     /\ (viewport' # viewport => Shared' = Shared /\ keys' = keys)
     /\ (errors' # errors => Shared' = Shared /\ keys' = keys)
     /\ (~FrameStep => MarkerPositions' = MarkerPositions)]_vars

\* a key callback and a resize callback have run, and frames have moved
\* the camera in between
C12_Witness ==
  /\ keys["KeyW"]
  /\ viewport.size # InitialSize
  /\ camera.position # InitCamera.position

----------------------------------------------------------------------------
\* C13: params.activeLight starts at 0 and is an index in 0..4 in every
\* reachable state; a step that changes it is a callback of the panel's
\* selector, which writes nothing else: no key event, frame tick, light
\* edit, loader callback or resize event changes it.
C13_SelectionOnlyBySelector ==
  /\ [](/\ params.activeLight \in LightIds
        /\ (callbacks = 0 => params.activeLight = 0))
  /\ [][params' # params =>
          /\ ~FrameStep
          /\ UNCHANGED <<keys, lastEvent, camera, controls, lights,
                         lightSpheres, clock, load, viewport, errors, tick,
                         rafPending>>]_vars

\* light 4 was selected, and a key event and a frame have followed
C13_Witness ==
  /\ params.activeLight = NumLights - 1
  /\ keys["PageUp"]
  /\ lights[NumLights - 1].position # initialPositions[NumLights - 1]

----------------------------------------------------------------------------
LightColors == [i \in LightIds |-> lights[i].color]

MarkerColors == [i \in LightIds |-> lightSpheres[i].color]

\* C14: in every state, for every light i the marker's color
\* lightSpheres[i].material.color equals lights[i].color; a step that
\* changes the color of light i changes, of all lights and markers, the
\* color of light i and of marker i only.
C14_MarkerColorFollowsLight ==
  /\ [](MarkerColors = LightColors)
  /\ [][\A i \in LightIds :
          lights'[i].color # lights[i].color =>
            /\ \A j \in LightIds \ {i} :
                 lights'[j] = lights[j] /\ lightSpheres'[j] = lightSpheres[j]
            /\ lights' = [lights EXCEPT ![i].color = lights'[i].color]
            /\ lightSpheres' =
                 [lightSpheres EXCEPT
                    ![i].color = lights'[i].color]]_vars

\* two lights have been given a color by the panel
C14_Witness ==
  /\ \A i \in PanelLights : lights[i].color \in PanelColors
  /\ \A i \in PanelLights : lightSpheres[i].color \in PanelColors
  /\ \A i \in LightIds \ PanelLights : lights[i].color = White

----------------------------------------------------------------------------
\* C15: when the asset load fails the error is reported once and the load
\* is never retried (a failed load stays failed); the failure callback
\* changes no camera, light, marker, key or selection state; and every
\* frame tick after the failure renders and leaves one frame callback
\* pending.
C15_LoadFailureIsContained ==
  /\ [](/\ errors = (IF load = "failed" THEN 1 ELSE 0)
        /\ (load = "failed" => rafPending = 1 /\ ~uncaught))
  /\ [][/\ (load = "failed" => load' = "failed")
        /\ (errors' # errors =>
              /\ load = "pending"
              /\ UNCHANGED <<camera, controls, lights, lightSpheres, keys,
                             params>>)
        /\ (load = "failed" /\ FrameStep =>
              Count("render")' = 1 /\ rafPending' = 1)]_vars

\* the load has failed and a frame has since moved the camera
C15_Witness ==
  /\ load = "failed"
  /\ errors = 1
  /\ clock.elapsedTime > mark.time
  /\ camera.position # InitCamera.position

----------------------------------------------------------------------------
\* the steps of a tick that the frame scheduler's contract names
Scheduled(step) == step # "controls.update"

\* C16: within every frame tick the steps occur in the order camera
\* navigation, light navigation, proxy sync, render, schedule-next-tick,
\* and each tick issues exactly one render call and exactly one scheduling
\* request (which replaces the frame callback the tick consumed).
C16_TickOrder ==
  /\ [](SelectSeq(tick, Scheduled) =
          <<"updateCameraMovement", "updateLightMovement", "sync",
            "render", "requestAnimationFrame">>)
  /\ [][FrameStep =>
          /\ Count("render")' = 1
          /\ Count("requestAnimationFrame")' = 1
          /\ rafPending' = rafPending]_vars

\* a frame has run since the latest callback, with a camera key held
C16_Witness ==
  /\ keys["KeyS"]
  /\ clock.elapsedTime > mark.time
  /\ Count("render") = 1
  /\ Len(tick) = 6

----------------------------------------------------------------------------
NoLightKeyHeld ==
  ~(\/ keys["ArrowUp"] \/ keys["ArrowDown"] \/ keys["ArrowLeft"]
    \/ keys["ArrowRight"] \/ keys["PageUp"] \/ keys["PageDown"])

\* C17: the proxy sync is idempotent: run a second time with no light
\* mutation in between, the sync loop leaves every marker as the first
\* run left it, both as a function applied twice to the lights and
\* markers of any reachable state and over two consecutive ticks; and the
\* sync changes no light field: a tick that moves no light leaves every
\* light as it was.
C17_SyncIsIdempotent ==
  /\ [](\E once \in {SyncSpheres(lights, lightSpheres)} :
          SyncSpheres(lights, once) = once)
  /\ [][FrameStep /\ Synced /\ lights' = lights =>
          lightSpheres' = lightSpheres]_vars
  /\ [][FrameStep /\ (NoLightKeyHeld \/ FrameDelta = 0) =>
          lights' = lights]_vars

\* the panel has moved light 0 while no light key was held and a tick has
\* synced its marker
C17_Witness ==
  /\ NoLightKeyHeld
  /\ lights[0].position[1] \in PanelCoords
  /\ lightSpheres[0].position = lights[0].position
  /\ clock.elapsedTime > mark.time

----------------------------------------------------------------------------
\* C18: from the first call of animate onward, between any two ticks
\* exactly one animation-frame callback is pending, never zero and never
\* two or more, under any interleaving with key, panel, loader and resize
\* callbacks.
C18_OneFramePending ==
  rafPending = 1

\* ticks have run between a key callback and a panel callback
C18_Witness ==
  /\ rafPending = 1
  /\ keys["KeyD"]
  /\ \E i \in PanelLights : lights[i].intensity \in PanelIntensities
  /\ camera.position # InitCamera.position

----------------------------------------------------------------------------
\* C19: camera and light navigation read disjoint key sets: a tick on
\* which only arrow/PageUp/PageDown keys are held leaves camera.position
\* and controls.target where they were, and a tick on which only W/A/S/D
\* are held changes no light position.
C19_DisjointKeySets ==
  [][FrameStep =>
       /\ (NoMoveKeyHeld /\ ~NoLightKeyHeld =>
             /\ camera'.position = camera.position
             /\ controls'.target = controls.target)
       /\ (NoLightKeyHeld /\ ~NoMoveKeyHeld =>
             LightPositions' = LightPositions)]_vars

\* with PageDown alone held a tick has lowered the active light and left
\* the camera and the target in place
C19_Witness ==
  /\ \A code \in KeyCodes : keys[code] = (code = "PageDown")
  /\ lights[0].position[2] < initialPositions[0][2]
  /\ camera.position = InitCamera.position
  /\ controls.target = Point(V3Scale(StepsPerUnit, <<0, 1, 0>>))

====
